---- MODULE Spec2Model ----
(***************************************************************************)
(* Model of the scraping web service in src/app.py: clean_text,            *)
(* scrape_website and the POST /search handler.                            *)
(*                                                                         *)
(* A Python str is a sequence of one-character strings.  Python None is    *)
(* the value None below.  A dict is a record; a missing key is a missing   *)
(* field.                                                                  *)
(***************************************************************************)
EXTENDS Integers, Sequences, FiniteSets, TLC

VARIABLES
    pc,         \* pc[r]: where the handler of request r stands
    body,       \* body[r]: the HTTP body request r carries
    data,       \* data[r]: what request.get_json() gave the handler
    executors,  \* executors[e]: the ThreadPoolExecutor created by the handler of e
    pool,       \* pool[r]: the executor the handler of r submitted to, 0 if none
    call,       \* call[r]: the arguments of the submitted scrape_website call
    future,     \* future[r]: the Future returned by executor.submit
    fetched,    \* fetched[r]: the call of r has reached requests.get
    answer,     \* answer[r]: what the network answered to the fetch of r
    outcome,    \* outcome[r]: how future.result(timeout=...) ended
    resp,       \* resp[r]: the response the handler built
    scr,        \* a direct call of scrape_website
    cln         \* a direct call of clean_text

handler_vars == <<pc, body, data, executors, pool, call, future, fetched, answer, outcome, resp>>

vars == <<pc, body, data, executors, pool, call, future, fetched, answer, outcome, resp, scr, cln>>

\* the values of scr and cln while no call of scrape_website or clean_text is
\* being followed
ScrapeIdle == [phase |-> "idle"]

CleanIdle == [phase |-> "idle", input |-> <<>>, once |-> <<>>, twice |-> <<>>]

\* ---------------------------------------------------------------------------
\* Bounds of the model
\* ---------------------------------------------------------------------------
MaxCleanLen == 4

\* the number of POST /search requests in flight together
NumRequests == 2

\* a generated page has up to MaxBlocks blocks of one heading, one paragraph
\* and one anchor, more than any find_all limit of scrape_website
MaxBlocks == 21

\* the texts of a generated page cycle through the pools with a stride of up
\* to MaxStride
MaxStride == 2

\* ---------------------------------------------------------------------------
\* Python values and str methods
\* ---------------------------------------------------------------------------
None == <<"None">>

\* the characters str.isspace() and the regex class \s accept, as far as the
\* model's alphabet has them
Whitespace == {" ", "\t", "\n"}

UpperChars == <<"A", "B", "C", "D", "E", "F", "G", "H", "I", "J", "K", "L", "M", "N", "O", "P", "Q", "R", "S", "T", "U", "V", "W", "X", "Y", "Z">>

LowerChars == <<"a", "b", "c", "d", "e", "f", "g", "h", "i", "j", "k", "l", "m", "n", "o", "p", "q", "r", "s", "t", "u", "v", "w", "x", "y", "z">>

Digits == {"0", "1", "2", "3", "4", "5", "6", "7", "8", "9"}

Range(s) == {s[i] : i \in DOMAIN s}

LowerChar(c) ==
    IF \E i \in DOMAIN UpperChars : UpperChars[i] = c
    THEN LowerChars[CHOOSE i \in DOMAIN UpperChars : UpperChars[i] = c]
    ELSE c

\* str.lower()
lower(s) == [i \in DOMAIN s |-> LowerChar(s[i])]

\* s[:n]
Take(s, n) == IF n >= Len(s) THEN s ELSE SubSeq(s, 1, n)

\* s[n:]
Drop(s, n) == IF n >= Len(s) THEN <<>> ELSE SubSeq(s, n + 1, Len(s))

\* s.startswith(p)
startswith(s, p) == Len(p) <= Len(s) /\ SubSeq(s, 1, Len(p)) = p

\* the Python test `sub in s` on strings
Contains(s, sub) ==
    \E i \in 0..(Len(s) - Len(sub)) : SubSeq(s, i + 1, i + Len(sub)) = sub

\* s.find(c) for one character, 0-based, -1 when absent
find(s, c) ==
    IF \E i \in DOMAIN s : s[i] = c
    THEN (CHOOSE i \in DOMAIN s : s[i] = c /\ \A j \in 1..(i - 1) : s[j] # c) - 1
    ELSE -1

\* str.strip()
strip(s) ==
    IF \A i \in DOMAIN s : s[i] \in Whitespace
    THEN <<>>
    ELSE LET first == CHOOSE i \in DOMAIN s :
                          s[i] \notin Whitespace /\ \A j \in 1..(i - 1) : s[j] \in Whitespace
             last  == CHOOSE i \in DOMAIN s :
                          s[i] \notin Whitespace /\ \A j \in (i + 1)..Len(s) : s[j] \in Whitespace
         IN  SubSeq(s, first, last)

\* re.sub(r'\s+', ' ', s): every maximal run of whitespace becomes one space
RECURSIVE re_sub_ws(_)
re_sub_ws(s) ==
    IF s = <<>> THEN <<>>
    ELSE IF Head(s) \in Whitespace
         THEN IF Len(s) > 1 /\ s[2] \in Whitespace
              THEN re_sub_ws(Tail(s))
              ELSE <<" ">> \o re_sub_ws(Tail(s))
         ELSE <<Head(s)>> \o re_sub_ws(Tail(s))

\* ---------------------------------------------------------------------------
\* clean_text
\* ---------------------------------------------------------------------------
clean_text_nostrip(text) ==
    IF text = None \/ text = <<>> THEN <<>> ELSE re_sub_ws(text)

clean_text(text) ==
    IF text = None \/ text = <<>> THEN <<>> ELSE re_sub_ws(strip(text))

\* ---------------------------------------------------------------------------
\* urllib.parse
\* ---------------------------------------------------------------------------
Str_http  == <<"h", "t", "t", "p">>
Str_https == <<"h", "t", "t", "p", "s">>
Str_ftp   == <<"f", "t", "p">>
Str_http_prefix  == <<"h", "t", "t", "p", ":", "/", "/">>
Str_https_prefix == <<"h", "t", "t", "p", "s", ":", "/", "/">>

scheme_chars == Range(UpperChars) \cup Range(LowerChars) \cup Digits \cup {"+", "-", "."}

IsAlpha(c) == c \in Range(UpperChars) \cup Range(LowerChars)

\* s.lstrip() over the characters urlsplit strips from the front of a URL
RECURSIVE lstrip(_)
lstrip(s) == IF s # <<>> /\ Head(s) \in Whitespace THEN lstrip(Tail(s)) ELSE s

\* urlsplit removes tab and newline characters anywhere in the URL
RemoveUnsafe(s) == SelectSeq(s, LAMBDA c : c \notin {"\t", "\n"})

\* first index at or after position start (0-based) of a netloc delimiter
NetlocEnd(s, start) ==
    IF \E i \in (start + 1)..Len(s) : s[i] \in {"/", "?", "#"}
    THEN (CHOOSE i \in (start + 1)..Len(s) :
              s[i] \in {"/", "?", "#"} /\ \A j \in (start + 1)..(i - 1) : s[j] \notin {"/", "?", "#"}) - 1
    ELSE Len(s)

\* urlparse(url, scheme=default): the scheme, the netloc and the rest
urlparse_with(raw, default) ==
    LET url == RemoveUnsafe(lstrip(raw))
        i   == find(url, ":")
        hasScheme == /\ i > 0
                     /\ IsAlpha(url[1])
                     /\ \A k \in 1..i : url[k] \in scheme_chars
        scheme == IF hasScheme THEN lower(Take(url, i)) ELSE default
        rest   == IF hasScheme THEN Drop(url, i + 1) ELSE url
        hasNetloc == Take(rest, 2) = <<"/", "/">>
        delim  == NetlocEnd(rest, 2)
    IN  [scheme |-> scheme,
         netloc |-> IF hasNetloc THEN SubSeq(rest, 3, delim) ELSE <<>>,
         path   |-> IF hasNetloc THEN Drop(rest, delim) ELSE rest]

urlparse(url) == urlparse_with(url, <<>>)

uses_relative == {<<>>, Str_http, Str_https, Str_ftp}

uses_netloc == {<<>>, Str_http, Str_https, Str_ftp}

urlunparse(scheme, netloc, path) ==
    LET withNetloc ==
            IF netloc # <<>> \/ (scheme # <<>> /\ scheme \in uses_netloc /\ Take(path, 2) # <<"/", "/">>)
            THEN <<"/", "/">> \o netloc \o (IF path # <<>> /\ path[1] # "/" THEN <<"/">> ELSE <<>>) \o path
            ELSE path
    IN  IF scheme # <<>> THEN scheme \o <<":">> \o withNetloc ELSE withNetloc

\* urljoin(base, url) for the hrefs of the model: empty, absolute, or an
\* absolute path without dot segments, query or fragment
urljoin(base, url) ==
    IF base = <<>> THEN url
    ELSE IF url = <<>> THEN base
    ELSE LET b == urlparse(base)
             u == urlparse_with(url, b.scheme)
         IN  IF u.scheme # b.scheme \/ u.scheme \notin uses_relative THEN url
             ELSE IF u.scheme \in uses_netloc /\ u.netloc # <<>>
                  THEN urlunparse(u.scheme, u.netloc, u.path)
             ELSE IF u.path = <<>>
                  THEN urlunparse(u.scheme, b.netloc, b.path)
             ELSE urlunparse(u.scheme, b.netloc, u.path)

\* ---------------------------------------------------------------------------
\* scrape_website
\*
\* A parsed page (the BeautifulSoup tree) is the sequence of its elements in
\* document order; an element has a tag, its text, and the attributes name,
\* content and href (None when the attribute is absent, "" for no name).
\*
\* The network's answer to requests.get is a record net:
\*   kind "response"         a response with a status and a page
\*   kind "Timeout"          requests.exceptions.Timeout
\*   kind "ConnectionError"  requests.exceptions.ConnectionError
\*   kind "Exception"        any other exception raised by the fetch or by
\*                           the parsing and extraction that follow it
\* ---------------------------------------------------------------------------
Str_no_title == <<"n", "o", " ", "t", "i", "t", "l", "e">>

IsHeading(e) == e.tag \in {"h1", "h2", "h3"}

IsParagraph(e) == e.tag = "p"

IsAnchorWithHref(e) == e.tag = "a" /\ e.href # None

\* soup.find_all(..., limit=limit), on the elements of the page that match
find_all(matching, limit) == Take(matching, limit)

\* the line-37 test: the URL is accepted when it has a scheme and a netloc
url_is_valid(url) ==
    LET parsed_url == urlparse(url)
    IN  parsed_url.scheme # <<>> /\ parsed_url.netloc # <<>>

title_text(page) ==
    LET titles == SelectSeq(page, LAMBDA e : e.tag = "title")
    IN  IF titles # <<>> THEN clean_text(titles[1].text) ELSE Str_no_title

description_text(page) ==
    LET metas == SelectSeq(page, LAMBDA e : e.tag = "meta" /\ e.name = "description")
    IN  IF metas # <<>> THEN clean_text(metas[1].content) ELSE <<>>

extract_headings(page) ==
    LET found == find_all(SelectSeq(page, IsHeading), 10)
        texts == [i \in DOMAIN found |-> clean_text(found[i].text)]
    IN  SelectSeq(texts, LAMBDA t : t # <<>>)

extract_paragraphs(page) ==
    LET found == find_all(SelectSeq(page, IsParagraph), 20)
        texts == [i \in DOMAIN found |-> clean_text(found[i].text)]
    IN  SelectSeq(texts, LAMBDA t : t # <<>> /\ Len(t) > 20)

extract_links(page, url) ==
    LET found == find_all(SelectSeq(page, IsAnchorWithHref), 15)
        items == [i \in DOMAIN found |->
                    [text |-> clean_text(found[i].text), url |-> urljoin(url, found[i].href)]]
    IN  SelectSeq(items, LAMBDA l : l.text # <<>>)

relevant_texts(texts, query_lower) ==
    SelectSeq(texts, LAMBDA t : Contains(lower(t), query_lower))

relevant_links_unfiltered(links, query_lower) == links

relevant_links(links, query_lower) ==
    SelectSeq(links, LAMBDA l : Contains(lower(l.text), query_lower))

found_matches_after_truncation(relevant_headings, relevant_paragraphs, relevant_links_) ==
    Len(Take(relevant_headings, 5)) + Len(Take(relevant_paragraphs, 10)) + Len(Take(relevant_links_, 10))

found_matches(relevant_headings, relevant_paragraphs, relevant_links_) ==
    Len(relevant_headings) + Len(relevant_paragraphs) + Len(relevant_links_)

query_document(url, title, description, query, relevant_headings, relevant_paragraphs, relevant_links_) ==
    [url           |-> url,
     title         |-> title,
     description   |-> description,
     query         |-> query,
     headings      |-> Take(relevant_headings, 5),
     paragraphs    |-> Take(relevant_paragraphs, 10),
     links         |-> Take(relevant_links_, 10),
     found_matches |-> found_matches(relevant_headings, relevant_paragraphs, relevant_links_)]

plain_document_untruncated(url, title, description, headings, paragraphs, links) ==
    [url         |-> url,
     title       |-> title,
     description |-> description,
     headings    |-> headings,
     paragraphs  |-> paragraphs,
     links       |-> links]

plain_document(url, title, description, headings, paragraphs, links) ==
    [url         |-> url,
     title       |-> title,
     description |-> description,
     headings    |-> Take(headings, 5),
     paragraphs  |-> Take(paragraphs, 10),
     links       |-> Take(links, 10)]

\* lines 48-115: the document built from a fetched page
extract(url, query, page) ==
    LET title       == title_text(page)
        description == description_text(page)
        headings    == extract_headings(page)
        paragraphs  == extract_paragraphs(page)
        links       == extract_links(page, url)
    IN  IF query # None /\ query # <<>>
        THEN LET query_lower == lower(query)
             IN  query_document(url, title, description, query,
                                relevant_texts(headings, query_lower),
                                relevant_texts(paragraphs, query_lower),
                                relevant_links(links, query_lower))
        ELSE plain_document(url, title, description, headings, paragraphs, links)

\* response.raise_for_status()
raises_for_status(status) == 400 <= status /\ status < 600

\* the exception the try body raises after the URL check, "" when it returns
raised_by_fetch(net) ==
    IF net.kind = "response"
    THEN IF raises_for_status(net.status) THEN "HTTPError" ELSE ""
    ELSE net.kind

\* lines 117-129: the except clauses; the outcome is a returned error dict
except_clauses_reraise(exc, net) ==
    CASE exc = "Timeout"         -> [raised |-> "", value |-> [error |-> <<"Timeout">>]]
      [] exc = "ConnectionError" -> [raised |-> "", value |-> [error |-> <<"ConnectionError">>]]
      [] exc = "HTTPError"       -> [raised |-> "", value |-> [error |-> <<"HTTPError", net.status>>]]
      [] OTHER                   -> [raised |-> exc, value |-> [error |-> <<"ScrapingError">>]]

except_clauses(exc, net) ==
    CASE exc = "Timeout"         -> [raised |-> "", value |-> [error |-> <<"Timeout">>]]
      [] exc = "ConnectionError" -> [raised |-> "", value |-> [error |-> <<"ConnectionError">>]]
      [] exc = "HTTPError"       -> [raised |-> "", value |-> [error |-> <<"HTTPError", net.status>>]]
      [] OTHER                   -> [raised |-> "", value |-> [error |-> <<"ScrapingError">>]]

\* whether scrape_website(url, ...) reaches requests.get
attempts_fetch(url) == url_is_valid(url)

\* scrape_website(url, query) when the network answers net; raised is the
\* exception that leaves the function ("" when it returns value)
scrape_website(url, query, net) ==
    IF ~url_is_valid(url)
    THEN [raised |-> "", value |-> [error |-> <<"InvalidUrl">>]]
    ELSE IF raised_by_fetch(net) # ""
         THEN except_clauses(raised_by_fetch(net), net)
         ELSE [raised |-> "", value |-> extract(url, query, net.page)]

\* ---------------------------------------------------------------------------
\* POST /search: the state of the handler and of its executor
\* ---------------------------------------------------------------------------
Requests == 1..NumRequests

Missing == <<"Missing">>

NoData == [kind |-> "none", url |-> Missing, query |-> Missing]

NoExecutor == [created |-> FALSE, owner |-> 0, queue |-> <<>>, running |-> 0, submitted |-> <<>>]

NoCall == [url |-> <<>>, query |-> <<>>]

NoFuture == [state |-> "none", raised |-> "", value |-> [none |-> TRUE]]

NoNet == [kind |-> "none", status |-> 0, page |-> <<>>]

NoResp == [status |-> 0, body |-> [none |-> TRUE]]

HandlerInit ==
    /\ pc = [r \in Requests |-> "idle"]
    /\ body = [r \in Requests |-> [json |-> "none", url |-> Missing, query |-> Missing]]
    /\ data = [r \in Requests |-> NoData]
    /\ executors = [e \in Requests |-> NoExecutor]
    /\ pool = [r \in Requests |-> 0]
    /\ call = [r \in Requests |-> NoCall]
    /\ future = [r \in Requests |-> NoFuture]
    /\ fetched = [r \in Requests |-> FALSE]
    /\ answer = [r \in Requests |-> NoNet]
    /\ outcome = [r \in Requests |-> "none"]
    /\ resp = [r \in Requests |-> NoResp]

\* no request arrives while a direct call is being followed
HandlerIdle == HandlerInit

\* ---------------------------------------------------------------------------
\* scrape_website applied to bounded inputs
\* ---------------------------------------------------------------------------
Element(tag, text) == [tag |-> tag, text |-> text, name |-> "", content |-> None, href |-> None]

Anchor(text, href) == [tag |-> "a", text |-> text, name |-> "", content |-> None, href |-> href]

Meta(name, content) == [tag |-> "meta", text |-> <<>>, name |-> name, content |-> content, href |-> None]

Str_hello == <<"h", "e", "l", "l", "o">>

HeadingPool ==
    << Element("h1", <<"H", "e", "l", "l", "o", " ", "W", "o", "r", "l", "d">>),
       Element("h2", <<" ", " ", "N", "e", "w", "s", "\n">>),
       Element("h3", <<" ", "\t">>),
       Element("h3", <<"h", "e", "l", "l", "o", " ", " ", "a", "g", "a", "i", "n">>),
       Element("h4", Str_hello) >>

ParagraphPool ==
    << Element("p", <<"T", "h", "i", "s", " ", "i", "s", " ", "a", " ", "s", "u", "f", "f", "i", "c", "i", "e", "n", "t", "l", "y", " ", "l", "o", "n", "g", " ", "p", "a", "r", "a", "g", "r", "a", "p", "h", " ", "t", "e", "x", "t", ".">>),
       Element("p", <<"S", "a", "y", " ", "H", "E", "L", "L", "O", " ", "t", "o", " ", "a", " ", " ", "l", "o", "n", "g", " ", "e", "n", "o", "u", "g", "h", " ", "p", "a", "r", "a", "g", "r", "a", "p", "h">>),
       Element("p", <<"T", "o", "o", " ", "s", "h", "o", "r", "t", " ", "h", "e", "l", "l", "o">>),
       Element("p", <<"e", "x", "a", "c", "t", "l", "y", " ", "t", "w", "e", "n", "t", "y", " ", "c", "h", "a", "r", "s">>),
       Element("p", <<"h", "e", "l", "l", "o", ",", " ", "e", "x", "a", "c", "t", "l", "y", " ", "2", "1", " ", "c", "h", "r", "\n">>) >>

AnchorPool ==
    << Anchor(<<"L", "i", "n", "k">>, <<"/", "x">>),
       Anchor(<<"H", "e", "l", "l", "o", " ", "l", "i", "n", "k">>, <<"h", "t", "t", "p", "s", ":", "/", "/", "e", ".", "f", "/", "y">>),
       Anchor(<<" ", " ">>, <<"/", "z">>),
       Anchor(Str_hello, None),
       Anchor(<<" ", "H", "E", "L", "L", "O", "\n", "t", "h", "e", "r", "e", " ">>, <<>>) >>

PoolSize == Len(HeadingPool)

HeadPool ==
    << <<>>,
       << Element("title", <<"T">>), Meta("description", <<"D">>) >>,
       << Element("title", <<" ", "T", "h", "e", "\n", " ", "T", "i", "t", "l", "e", " ">>),
          Meta("viewport", <<"D">>), Meta("description", None), Meta("description", <<"D", " ", " ", "d">>),
          Element("title", <<"T">>) >> >>

\* the pool entry of block i for a pattern [start, stride]
PoolIndex(pat, i) == ((pat.start + i * pat.stride) % PoolSize) + 1

Patterns == [start : 0..(PoolSize - 1), stride : 0..MaxStride]

RECURSIVE Blocks(_, _)
Blocks(n, pat) ==
    IF n = 0 THEN <<>>
    ELSE LET k == PoolIndex(pat, n)
         IN  Blocks(n - 1, pat) \o << HeadingPool[k], ParagraphPool[k], AnchorPool[k] >>

\* the page of n blocks whose texts follow pat
PageOf(n, pat) == HeadPool[(n % Len(HeadPool)) + 1] \o Blocks(n, pat)

Pages == {PageOf(n, pat) : n \in 0..MaxBlocks, pat \in Patterns}

Response(status, page) == [kind |-> "response", status |-> status, page |-> page]

Failure(kind) == [kind |-> kind, status |-> 0, page |-> <<>>]

SmallPage == PageOf(1, [start |-> 0, stride |-> 0])

SmallNets ==
    {Response(200, SmallPage), Response(404, <<>>),
     Failure("Timeout"), Failure("ConnectionError"), Failure("Exception")}

Str_url_ab  == <<"h", "t", "t", "p", "s", ":", "/", "/", "a", ".", "b">>
Str_url_abx == <<"h", "t", "t", "p", ":", "/", "/", "a", ".", "b", "/", "x">>
Str_not_a_url == <<"n", "o", "t", " ", "a", " ", "u", "r", "l">>

ScrapeUrls ==
    {Str_url_ab, Str_url_abx, Str_not_a_url,
     Str_https_prefix \o Str_not_a_url,
     <<"a", ".", "b">>, Str_https_prefix, <<"/", "/", "a", ".", "b">>,
     <<"f", "t", "p", ":", "/", "/", "a", ".", "b">>, <<>>}

Queries == {None, <<>>, Str_hello, <<"H", "e", "L", "L", "o">>, <<"l", "i", "n", "k">>, <<"o", " ", "w">>}

ScrapeInputs ==
    {[url |-> u, query |-> q, net |-> n] : u \in ScrapeUrls, q \in Queries, n \in SmallNets}
    \cup
    {[url |-> u, query |-> q, net |-> Response(200, pg)] :
        u \in {Str_url_ab, Str_url_abx}, q \in Queries, pg \in Pages}

InitScrape ==
    /\ \E in \in ScrapeInputs : scr = [phase |-> "call", url |-> in.url, query |-> in.query, net |-> in.net]
    /\ cln = CleanIdle
    /\ HandlerIdle

\* one call scrape_website(url, query); the handler of line 168 is the only
\* caller, and no exception leaves the function
ScrapeCall ==
    /\ scr.phase = "call"
    /\ scr' = [phase |-> "returned", url |-> scr.url, query |-> scr.query, net |-> scr.net,
               fetched |-> attempts_fetch(scr.url),
               out |-> scrape_website(scr.url, scr.query, scr.net)]
    /\ UNCHANGED <<cln, handler_vars>>

NextScrape == ScrapeCall

ScrapeSpec == InitScrape /\ [][NextScrape]_vars

\* ---------------------------------------------------------------------------
\* POST /search
\*
\* The body of a request is a record: json tells whether the body is absent,
\* unparseable, the JSON value null or a JSON object; url and query are the
\* values of the object's keys (Missing for a missing key, None for null).
\* ---------------------------------------------------------------------------
Bodies ==
    {[json |-> "absent", url |-> Missing, query |-> Missing],
     [json |-> "unparseable", url |-> Missing, query |-> Missing],
     [json |-> "object", url |-> Missing, query |-> Missing],
     [json |-> "object", url |-> Missing, query |-> Str_hello],
     [json |-> "object", url |-> <<" ", "\t">>, query |-> Missing],
     [json |-> "object", url |-> <<" ", "a", ".", "b", "\n">>, query |-> <<" ", "H", "e", "L", "L", "o", " ">>],
     [json |-> "object", url |-> Str_https_prefix, query |-> Missing],
     [json |-> "object", url |-> Str_not_a_url, query |-> Missing]}

\* request.get_json(): the parsed body, or an HTTP error raised for a body
\* that is not JSON.  A request without a JSON body gives None or raises,
\* depending on the installed Flask.
get_json(b) ==
    CASE b.json = "absent" ->
            {[kind |-> "raised", url |-> Missing, query |-> Missing],
             [kind |-> "None", url |-> Missing, query |-> Missing]}
      [] b.json = "unparseable" ->
            {[kind |-> "raised", url |-> Missing, query |-> Missing]}
      [] b.json = "null" ->
            {[kind |-> "None", url |-> Missing, query |-> Missing]}
      [] OTHER ->
            {[kind |-> "dict", url |-> b.url, query |-> b.query]}

\* data.get(key, ''), on the value v of the key
get_or_empty(v) == IF v = Missing THEN <<>> ELSE v

\* `not data`: None and the empty dict are false
is_falsy(d) == d.kind = "None" \/ (d.kind = "dict" /\ d.url = Missing /\ d.query = Missing)

error_response(status, error) == [status |-> status, body |-> [error |-> error]]

ElapsedTime == "round(elapsed_time, 2)"

\* lines 159-160
with_scheme(url) ==
    IF startswith(url, Str_http_prefix) \/ startswith(url, Str_https_prefix)
    THEN url
    ELSE Str_https_prefix \o url

\* lines 145-160 and the except clause of lines 190-193: either the response
\* of an early return, or the arguments of the call to submit
validate(d) ==
    IF d.kind = "raised"
    THEN [kind |-> "respond", resp |-> error_response(500, <<"RequestProcessingError">>)]
    ELSE IF is_falsy(d)
    THEN [kind |-> "respond", resp |-> error_response(400, <<"NoRequestData">>)]
    ELSE IF get_or_empty(d.url) = None \/ get_or_empty(d.query) = None
    THEN [kind |-> "respond", resp |-> error_response(500, <<"RequestProcessingError">>)]
    ELSE LET url   == strip(get_or_empty(d.url))
             query == strip(get_or_empty(d.query))
         IN  IF url = <<>>
             THEN [kind |-> "respond", resp |-> error_response(400, <<"NoUrl">>)]
             ELSE [kind |-> "submit", url |-> with_scheme(url), query |-> query]

\* lines 171-182: the response for the dict future.result returned
result_response(result) ==
    IF "error" \in DOMAIN result
    THEN [status |-> 400, body |-> [error |-> result.error, elapsed_time |-> ElapsedTime]]
    ELSE [status |-> 200, body |-> result @@ [elapsed_time |-> ElapsedTime]]

\* lines 184-188: the response when future.result raised exc
exception_response(exc) == error_response(500, <<"ProcessingError", exc>>)

\* ThreadPoolExecutor(max_workers=1): a new executor with one worker thread,
\* an empty queue and nothing running.  An executor is named after the call
\* of search() that creates it.
NewExecutor(r) == [created |-> TRUE, owner |-> r, queue |-> <<>>, running |-> 0, submitted |-> <<>>]

module_level_executor(execs, r) ==
    IF execs[1].created
    THEN [executors |-> execs, id |-> 1]
    ELSE [executors |-> [execs EXCEPT ![1] = NewExecutor(r)], id |-> 1]

ThreadPoolExecutor(execs, r) ==
    [executors |-> [execs EXCEPT ![r] = NewExecutor(r)], id |-> r]

\* executor.submit: the task of request t joins the queue of executor e
submit(execs, e, t) ==
    [execs EXCEPT ![e].queue = Append(@, t), ![e].submitted = Append(@, t)]

\* what the network can answer to a fetch of url: a host name with a space
\* in it resolves nowhere, so the fetch raises
Answers(url) ==
    IF " " \in Range(urlparse(url).netloc)
    THEN {Failure("ConnectionError"), Failure("Exception")}
    ELSE SmallNets

Finished(out) == [state |-> "finished", raised |-> out.raised, value |-> out.value]

\* a POST /search request arrives with body b, and search() runs lines
\* 141-168: it parses and validates the body, then returns early or creates
\* the executor and submits scrape_website(url, query)
Search(r) ==
    /\ pc[r] = "idle"
    /\ \E b \in Bodies : \E d \in get_json(b) :
          LET v == validate(d)
          IN  /\ body' = [body EXCEPT ![r] = b]
              /\ data' = [data EXCEPT ![r] = d]
              /\ IF v.kind = "respond"
                 THEN /\ resp' = [resp EXCEPT ![r] = v.resp]
                      /\ pc' = [pc EXCEPT ![r] = "responded"]
                      /\ UNCHANGED <<executors, pool, call, future>>
                 ELSE LET made == ThreadPoolExecutor(executors, r)
                      IN  /\ executors' = submit(made.executors, made.id, r)
                          /\ pool' = [pool EXCEPT ![r] = made.id]
                          /\ call' = [call EXCEPT ![r] = [url |-> v.url, query |-> v.query]]
                          /\ future' = [future EXCEPT ![r].state = "pending"]
                          /\ pc' = [pc EXCEPT ![r] = "waiting"]
                          /\ UNCHANGED resp
    /\ UNCHANGED <<fetched, answer, outcome, scr, cln>>

\* the worker thread of executor e takes the next task and runs
\* scrape_website up to requests.get (lines 32-45); a call whose URL fails the
\* check returns at once
WorkerStart(e) ==
    /\ executors[e].created
    /\ executors[e].running = 0
    /\ executors[e].queue # <<>>
    /\ LET t == Head(executors[e].queue)
       IN  IF attempts_fetch(call[t].url)
           THEN /\ executors' = [executors EXCEPT ![e].queue = Tail(@), ![e].running = t]
                /\ future' = [future EXCEPT ![t].state = "running"]
                /\ fetched' = [fetched EXCEPT ![t] = TRUE]
           ELSE /\ executors' = [executors EXCEPT ![e].queue = Tail(@)]
                /\ future' = [future EXCEPT ![t] = Finished(scrape_website(call[t].url, call[t].query, NoNet))]
                /\ UNCHANGED fetched
    /\ UNCHANGED <<pc, body, data, pool, call, answer, outcome, resp, scr, cln>>

\* requests.get returns or raises, and scrape_website runs to its end
\* (lines 45-129); nothing bounds the time this takes
WorkerFinish(e) ==
    /\ executors[e].created
    /\ executors[e].running # 0
    /\ LET t == executors[e].running
       IN  \E n \in Answers(call[t].url) :
              /\ answer' = [answer EXCEPT ![t] = n]
              /\ future' = [future EXCEPT ![t] = Finished(scrape_website(call[t].url, call[t].query, n))]
    /\ executors' = [executors EXCEPT ![e].running = 0]
    /\ UNCHANGED <<pc, body, data, pool, call, fetched, outcome, resp, scr, cln>>

\* future.result(timeout=MAX_SEARCH_TIME) returns the result of the call or
\* raises the exception of the call (lines 170-188); the worker thread is
\* idle by then, so the with statement ends at once and search() returns
GetResult(r) ==
    /\ pc[r] = "waiting"
    /\ future[r].state = "finished"
    /\ IF future[r].raised = ""
       THEN /\ outcome' = [outcome EXCEPT ![r] = "returned"]
            /\ resp' = [resp EXCEPT ![r] = result_response(future[r].value)]
       ELSE /\ outcome' = [outcome EXCEPT ![r] = "raised"]
            /\ resp' = [resp EXCEPT ![r] = exception_response(future[r].raised)]
    /\ pc' = [pc EXCEPT ![r] = "responded"]
    /\ UNCHANGED <<body, data, executors, pool, call, future, fetched, answer, scr, cln>>

\* MAX_SEARCH_TIME seconds pass with the call unfinished, and
\* future.result(timeout=MAX_SEARCH_TIME) raises TimeoutError (lines 170,
\* 184-188)
ResultTimeout(r) ==
    /\ pc[r] = "waiting"
    /\ future[r].state # "finished"
    /\ outcome' = [outcome EXCEPT ![r] = "timed_out"]
    /\ resp' = [resp EXCEPT ![r] = exception_response("TimeoutError")]
    /\ pc' = [pc EXCEPT ![r] = "exiting"]
    /\ UNCHANGED <<body, data, executors, pool, call, future, fetched, answer, scr, cln>>

\* the with statement of line 167 ends after the timeout:
\* executor.shutdown(wait=True) joins the worker thread, and only then does
\* search() return its response
ExitWith(r) ==
    /\ pc[r] = "exiting"
    /\ executors[pool[r]].queue = <<>>
    /\ executors[pool[r]].running = 0
    /\ pc' = [pc EXCEPT ![r] = "responded"]
    /\ UNCHANGED <<body, data, executors, pool, call, future, fetched, answer, outcome, resp, scr, cln>>

Init ==
    /\ HandlerInit
    /\ scr = ScrapeIdle
    /\ cln = CleanIdle

Next ==
    \/ \E r \in Requests : Search(r)
    \/ \E e \in Requests : WorkerStart(e)
    \/ \E e \in Requests : WorkerFinish(e)
    \/ \E r \in Requests : GetResult(r)
    \/ \E r \in Requests : ResultTimeout(r)
    \/ \E r \in Requests : ExitWith(r)

Spec == Init /\ [][Next]_vars

\* The handler and the worker thread keep running and time keeps passing; the
\* fetch itself need never end.
Fairness ==
    /\ \A r \in Requests : WF_vars(Search(r))
    /\ \A r \in Requests : WF_vars(GetResult(r))
    /\ \A r \in Requests : WF_vars(ResultTimeout(r))
    /\ \A r \in Requests : WF_vars(ExitWith(r))
    /\ \A e \in Requests : WF_vars(WorkerStart(e))

FairSpec == Init /\ [][Next]_vars /\ Fairness

\* ---------------------------------------------------------------------------
\* clean_text applied to bounded inputs, then applied to its own result
\* ---------------------------------------------------------------------------
CleanAlphabet == {"a", "B", " ", "\t", "\n"}

RECURSIVE StringsUpTo(_, _)
StringsUpTo(alphabet, n) ==
    IF n = 0 THEN {<<>>}
    ELSE LET shorter == StringsUpTo(alphabet, n - 1)
         IN  shorter \cup {Append(s, c) : s \in {t \in shorter : Len(t) = n - 1}, c \in alphabet}

CleanInputs == StringsUpTo(CleanAlphabet, MaxCleanLen) \cup {None}

InitClean ==
    /\ \E x \in CleanInputs :
        cln = [phase |-> "input", input |-> x, once |-> <<>>, twice |-> <<>>]
    /\ scr = ScrapeIdle
    /\ HandlerIdle

CleanOnce ==
    /\ cln.phase = "input"
    /\ cln' = [cln EXCEPT !.phase = "once", !.once = clean_text(cln.input)]
    /\ UNCHANGED <<scr, handler_vars>>

CleanTwice ==
    /\ cln.phase = "once"
    /\ cln' = [cln EXCEPT !.phase = "twice", !.twice = clean_text(cln.once)]
    /\ UNCHANGED <<scr, handler_vars>>

NextClean == CleanOnce \/ CleanTwice

CleanSpec == InitClean /\ [][NextClean]_vars

\* ---------------------------------------------------------------------------
\* Claims
\* ---------------------------------------------------------------------------
\* --- POST /search ---

Responded(r) == pc[r] = "responded"

\* the request passed validation: its call was submitted
Submitted(r) == pool[r] # 0

\* what became of the bounded work of request r
WorkOutcome(r) ==
    IF outcome[r] = "timed_out" THEN "OuterTimeout"
    ELSE IF ~fetched[r] THEN "InvalidUrl"
    ELSE IF answer[r].kind = "response"
         THEN IF answer[r].status >= 400 THEN "HTTPError" ELSE "Success"
    ELSE answer[r].kind

\* C1: once the outer deadline has ended the wait of a validated request, the
\* handler returns its timeout response, whether or not the submitted work
\* ever completes.
C1_TimeoutResponseIsReturned ==
    \A r \in Requests : (outcome[r] = "timed_out") ~> Responded(r)

\* C2: every response of POST /search contains an elapsed_time field.
C2_EveryResponseHasElapsedTime ==
    \A r \in Requests : Responded(r) => "elapsed_time" \in DOMAIN resp[r].body

\* C3 as claimed: success gives 200, a recognized extraction error gives 400,
\* an outer-deadline timeout or an unexpected exception raised while the work
\* runs gives 500.
C3_UnexpectedExceptionGives500 ==
    \A r \in Requests : (Responded(r) /\ Submitted(r)) =>
        resp[r].status =
            CASE WorkOutcome(r) = "Success" -> 200
              [] WorkOutcome(r) \in {"InvalidUrl", "Timeout", "ConnectionError", "HTTPError"} -> 400
              [] OTHER -> 500

\* C3 as amended: success gives 200 with the payload; every error dict
\* scrape_website returns gives 400, the one for an unexpected exception
\* raised while the work runs included; only the outer-deadline timeout
\* gives 500.
C3_StatusByOutcome ==
    \A r \in Requests : (Responded(r) /\ Submitted(r)) =>
        /\ resp[r].status =
              CASE WorkOutcome(r) = "Success" -> 200
                [] WorkOutcome(r) = "OuterTimeout" -> 500
                [] OTHER -> 400
        /\ WorkOutcome(r) = "Success" =>
              /\ "error" \notin DOMAIN resp[r].body
              /\ resp[r].body.url = call[r].url
              /\ resp[r].body.title = title_text(answer[r].page)
        /\ WorkOutcome(r) # "Success" => "error" \in DOMAIN resp[r].body

C3_Witness ==
    \E r \in Requests :
        /\ Responded(r)
        /\ fetched[r]
        /\ outcome[r] = "returned"
        /\ answer[r].kind = "Exception"
        /\ resp[r].status = 400

\* C4: the URL "not a url" yields the InvalidUrl error, and no fetch is
\* attempted for it.
C4_NotAUrlIsRejectedUnfetched ==
    \A r \in Requests : body[r].url = Str_not_a_url =>
        /\ ~fetched[r]
        /\ Responded(r) =>
              /\ "error" \in DOMAIN resp[r].body
              /\ resp[r].body.error = <<"InvalidUrl">>

BodyIsInvalid(b) ==
    \/ b.json \in {"absent", "unparseable"}
    \/ b.json = "object" /\ b.url # None /\ strip(get_or_empty(b.url)) = <<>>

\* C5: a request whose body is absent or unparseable, or whose url is
\* missing, empty or blank, is answered with 400, nothing is submitted and
\* nothing fetched for it; an absent query does not cause rejection.
C5_InvalidBodyGives400 ==
    \A r \in Requests : pc[r] # "idle" =>
        /\ BodyIsInvalid(body[r]) =>
              /\ Responded(r)
              /\ resp[r].status = 400
              /\ ~Submitted(r)
              /\ ~fetched[r]
        /\ (~BodyIsInvalid(body[r]) /\ body[r].query = Missing) => Submitted(r)

\* the response request r gets, from its own body, its own parsed data, the
\* network's answer to its own fetch and the end of its own wait
OwnResponse(r) ==
    LET v == validate(data[r])
    IN  IF v.kind = "respond" THEN v.resp
        ELSE IF outcome[r] = "timed_out" THEN exception_response("TimeoutError")
        ELSE result_response(scrape_website(v.url, v.query, answer[r]).value)

\* C10: every request that passes validation has an executor of its own,
\* with exactly one task submitted, its own; no task waits behind or runs on
\* another request's worker; the response of a request is determined by its
\* own input and its own fetch outcome.
C10_RequestsAreIsolated ==
    /\ \A r \in Requests : Submitted(r) =>
          /\ executors[pool[r]].created
          /\ executors[pool[r]].owner = r
          /\ executors[pool[r]].submitted = <<r>>
          /\ \A q \in Requests \ {r} : pool[q] # pool[r]
          /\ future[r].state = "pending" => executors[pool[r]].running = 0
    /\ \A e \in Requests :
          /\ executors[e].running \in {0, executors[e].owner}
          /\ \A i \in DOMAIN executors[e].queue : executors[e].queue[i] = executors[e].owner
    /\ \A r \in Requests : pc[r] \in {"exiting", "responded"} =>
          /\ data[r] \in get_json(body[r])
          /\ resp[r] = OwnResponse(r)

C10_Witness ==
    /\ pc[1] = "exiting"
    /\ future[1].state = "running"
    /\ Responded(2)
    /\ resp[2].status = 200
    /\ pool[1] # pool[2]

\* --- what the claims about scrape_website speak of, stated on the page ---

ScrapeReturnedDoc ==
    /\ scr.phase = "returned"
    /\ scr.out.raised = ""
    /\ "error" \notin DOMAIN scr.out.value

HasQuery == scr.query # None /\ scr.query # <<>>

SameLetter(c, d) == LowerChar(c) = LowerChar(d)

\* q occurs in text when upper and lower case are not told apart
ContainsIgnoringCase(text, q) ==
    \E off \in 0..(Len(text) - Len(q)) : \A k \in 1..Len(q) : SameLetter(text[off + k], q[k])

\* the positions of the page among the first limit elements of the kind Kind
FirstOfKind(page, Kind(_), limit) ==
    {i \in DOMAIN page : Kind(page[i]) /\ Cardinality({j \in 1..i : Kind(page[j])}) <= limit}

Wanted(text, filtered) == filtered => ContainsIgnoringCase(text, scr.query)

\* positions of the headings, paragraphs and links scrape_website keeps;
\* with filtered, only those that match the query
HeadingPositions(page, filtered) ==
    {i \in FirstOfKind(page, LAMBDA e : e.tag \in {"h1", "h2", "h3"}, 10) :
        clean_text(page[i].text) # <<>> /\ Wanted(clean_text(page[i].text), filtered)}

ParagraphPositions(page, filtered) ==
    {i \in FirstOfKind(page, LAMBDA e : e.tag = "p", 20) :
        Len(clean_text(page[i].text)) > 20 /\ Wanted(clean_text(page[i].text), filtered)}

LinkPositions(page, filtered) ==
    {i \in FirstOfKind(page, LAMBDA e : e.tag = "a" /\ e.href # None, 15) :
        clean_text(page[i].text) # <<>> /\ Wanted(clean_text(page[i].text), filtered)}

\* the k-th smallest member of a set of positions
Nth(positions, k) == CHOOSE i \in positions : Cardinality({j \in positions : j <= i}) = k

ReturnedCount == LET d == scr.out.value IN Len(d.headings) + Len(d.paragraphs) + Len(d.links)

\* C6: for a non-empty query every returned heading, paragraph and link text
\* contains the query case-insensitively, and the document echoes the query.
C6_FilteredEntriesMatchQuery ==
    (ScrapeReturnedDoc /\ HasQuery) =>
        LET d == scr.out.value
        IN  /\ "query" \in DOMAIN d
            /\ d.query = scr.query
            /\ \A i \in DOMAIN d.headings : ContainsIgnoringCase(d.headings[i], scr.query)
            /\ \A i \in DOMAIN d.paragraphs : ContainsIgnoringCase(d.paragraphs[i], scr.query)
            /\ \A i \in DOMAIN d.links : ContainsIgnoringCase(d.links[i].text, scr.query)

C6_Witness ==
    /\ ScrapeReturnedDoc
    /\ scr.query = <<"H", "e", "L", "L", "o">>
    /\ scr.out.value.headings # <<>>
    /\ scr.out.value.links # <<>>
    /\ Cardinality(HeadingPositions(scr.net.page, FALSE)) > Cardinality(HeadingPositions(scr.net.page, TRUE))
    /\ Cardinality(LinkPositions(scr.net.page, FALSE)) > Cardinality(LinkPositions(scr.net.page, TRUE))

Truncated(page) ==
    \/ Cardinality(HeadingPositions(page, TRUE)) > 5
    \/ Cardinality(ParagraphPositions(page, TRUE)) > 10
    \/ Cardinality(LinkPositions(page, TRUE)) > 10

\* C7: for a non-empty query found_matches is the number of matching
\* headings, paragraphs and links before the truncation to 5/10/10; it is at
\* least the number of returned entries, and greater exactly when a list was
\* truncated.
C7_FoundMatchesBeforeTruncation ==
    (ScrapeReturnedDoc /\ HasQuery) =>
        LET d    == scr.out.value
            page == scr.net.page
        IN  /\ "found_matches" \in DOMAIN d
            /\ d.found_matches = Cardinality(HeadingPositions(page, TRUE))
                                 + Cardinality(ParagraphPositions(page, TRUE))
                                 + Cardinality(LinkPositions(page, TRUE))
            /\ d.found_matches >= ReturnedCount
            /\ (d.found_matches > ReturnedCount) <=> Truncated(page)

C7_Witness ==
    /\ ScrapeReturnedDoc
    /\ HasQuery
    /\ Cardinality(ParagraphPositions(scr.net.page, TRUE)) > 10
    /\ Cardinality(HeadingPositions(scr.net.page, TRUE)) < 5
    /\ scr.out.value.found_matches > ReturnedCount

\* C8: a returned document has at most 5 headings, 10 paragraphs and 10
\* links, each list a document-order prefix of the extracted (with a query:
\* and filtered) list; without a query it has no query and no found_matches.
C8_CapsAndPrefixes ==
    ScrapeReturnedDoc =>
        LET d    == scr.out.value
            page == scr.net.page
            hs   == HeadingPositions(page, HasQuery)
            ps   == ParagraphPositions(page, HasQuery)
            ls   == LinkPositions(page, HasQuery)
        IN  /\ Len(d.headings) <= 5 /\ Len(d.paragraphs) <= 10 /\ Len(d.links) <= 10
            /\ Len(d.headings) <= Cardinality(hs)
            /\ Len(d.paragraphs) <= Cardinality(ps)
            /\ Len(d.links) <= Cardinality(ls)
            /\ \A k \in DOMAIN d.headings : d.headings[k] = clean_text(page[Nth(hs, k)].text)
            /\ \A k \in DOMAIN d.paragraphs : d.paragraphs[k] = clean_text(page[Nth(ps, k)].text)
            /\ \A k \in DOMAIN d.links :
                  /\ d.links[k].text = clean_text(page[Nth(ls, k)].text)
                  /\ d.links[k].url = urljoin(scr.url, page[Nth(ls, k)].href)
            /\ ~HasQuery => ("query" \notin DOMAIN d /\ "found_matches" \notin DOMAIN d)

C8_Witness ==
    /\ ScrapeReturnedDoc
    /\ ~HasQuery
    /\ Len(scr.out.value.headings) = 5
    /\ Len(scr.out.value.paragraphs) = 10
    /\ Len(scr.out.value.links) = 10
    /\ Cardinality(HeadingPositions(scr.net.page, FALSE)) > 5
    /\ Cardinality(LinkPositions(scr.net.page, FALSE)) > 10

Normalized(s) ==
    /\ s # <<>> => (s[1] \notin Whitespace /\ s[Len(s)] \notin Whitespace)
    /\ \A i \in 1..(Len(s) - 1) : ~(s[i] \in Whitespace /\ s[i + 1] \in Whitespace)

\* C9: clean_text is idempotent, its result has no leading or trailing
\* whitespace and no run of two or more whitespace characters, and it is the
\* empty string for None and for the empty string.
C9_CleanTextIdempotent ==
    /\ cln.phase \in {"once", "twice"} =>
          /\ Normalized(cln.once)
          /\ (cln.input = None \/ cln.input = <<>>) => cln.once = <<>>
    /\ cln.phase = "twice" => cln.twice = cln.once

C9_Witness ==
    /\ cln.phase = "twice"
    /\ cln.input = <<" ", "a", "\n", "\t">>
    /\ cln.once = <<"a">>

====
